---- MODULE Spec2Model ----
(***************************************************************************)
(* Model of harmony_v1.1.0_release_verifier.py: the release verification   *)
(* pipeline run_harmony_release_verification and the helpers it calls.     *)
(*                                                                         *)
(* The GitHub API is the environment.  Every request the script issues is  *)
(* answered by a response chosen nondeterministically from a bounded set   *)
(* of responses of the resource's documented shape.  Text is kept as real  *)
(* strings: lengths, substring tests and case folding are computed.        *)
(* Optional JSON values are sequences of length 0 (null / absent) or 1.    *)
(***************************************************************************)
EXTENDS Integers, Sequences, FiniteSets, TLC

(***************************************************************************)
(* Bounds of the model.                                                    *)
(***************************************************************************)
MaxPRs == 3
MaxParents == 2

(***************************************************************************)
(* Python string primitives.                                               *)
(***************************************************************************)
\* The value of a one-element set: binds a computed value once, by its value
The(S) == CHOOSE v \in S : TRUE

UpperLetters == "ABCDEFGHIJKLMNOPQRSTUVWXYZ"
LowerLetters == "abcdefghijklmnopqrstuvwxyz"

CharAt(s, i) == SubSeq(s, i, i)

\* The lower-case letter of every upper-case letter
LowerOf == [c \in {CharAt(UpperLetters, i) : i \in 1..Len(UpperLetters)} |->
              CharAt(LowerLetters, CHOOSE i \in 1..Len(UpperLetters) : CharAt(UpperLetters, i) = c)]

\* str.lower() on one character
LowerChar(c) == IF c \in DOMAIN LowerOf THEN LowerOf[c] ELSE c

RECURSIVE Lower(_)
\* str.lower()
Lower(s) ==
    The({(IF Len(v) = 0 THEN ""
          ELSE IF Len(v) = 1 THEN LowerChar(v)
          ELSE Lower(SubSeq(v, 1, Len(v) \div 2)) \o Lower(SubSeq(v, (Len(v) \div 2) + 1, Len(v)))) :
            v \in {s}})

\* needle in hay
Contains(needle, hay) ==
    \E n \in {needle}, h \in {hay} :
        \E i \in 0..(Len(h) - Len(n)) : SubSeq(h, i + 1, i + Len(n)) = n

Digits == "0123456789"

RECURSIVE Str(_)
\* str(n) for a natural number, as formatted by an f-string
Str(n) ==
    IF n < 10 THEN CharAt(Digits, n + 1)
    ELSE Str(n \div 10) \o CharAt(Digits, (n % 10) + 1)

\* s[:k]
Prefix(s, k) == SubSeq(s, 1, IF Len(s) < k THEN Len(s) ELSE k)

\* Optional values
None == <<>>
Some(v) == <<v>>
IsNone(o) == Len(o) = 0
Get(o) == o[1]

(***************************************************************************)
(* Console output.  Every print of the script is one record: the stream,   *)
(* a tag naming the print statement, and the values it interpolates.       *)
(***************************************************************************)
Out(tag, args) == [stream |-> "stdout", tag |-> tag, args |-> args]
Err(tag, args) == [stream |-> "stderr", tag |-> tag, args |-> args]

(***************************************************************************)
(* HTTP responses of the GitHub API.  raised = TRUE stands for requests.get *)
(* or response.json() raising (timeout, connection error, invalid JSON).   *)
(* body is the parsed JSON: None for null or an empty object.              *)
(***************************************************************************)
Response(status, body) == [raised |-> FALSE, status |-> status, body |-> body]
Raised == [raised |-> TRUE, status |-> 0, body |-> None]
NotFound == Response(404, None)
ServerError == Response(500, None)
FailureResponses == {NotFound, ServerError, Raised}

\* The result of a helper: its return value, the requests it issued, its prints.
Result(ret, calls, out) == [ret |-> ret, calls |-> calls, out |-> out]

\* _call_github_api: (success, data) plus the request issued and the diagnostics printed
\* A request that writes
HttpMethod_Post == "POST"

\* requests.get: every request is a GET
HttpMethod == "GET"

\* _call_github_api that takes 404 for a success without data
_call_github_api_NotFoundIsEmpty(endpoint, headers, org, repo, r) ==
    LET url == "https://api.github.com/repos/" \o org \o "/" \o repo \o "/" \o endpoint
        call == [method |-> HttpMethod, url |-> url, endpoint |-> endpoint,
                 raised |-> r.raised, status |-> r.status]
    IN  IF r.raised
        THEN Result([success |-> FALSE, data |-> None], <<call>>, <<Err("api_exception", <<endpoint>>)>>)
        ELSE IF r.status = 200
        THEN Result([success |-> TRUE, data |-> r.body], <<call>>, <<>>)
        ELSE IF r.status = 404
        THEN Result([success |-> TRUE, data |-> None], <<call>>, <<Err("api_not_found", <<endpoint>>)>>)
        ELSE Result([success |-> FALSE, data |-> None], <<call>>,
                    <<Err("api_error", <<endpoint, Str(r.status)>>)>>)

_call_github_api(endpoint, headers, org, repo, r) ==
    LET url == "https://api.github.com/repos/" \o org \o "/" \o repo \o "/" \o endpoint
        call == [method |-> HttpMethod, url |-> url, endpoint |-> endpoint,
                 raised |-> r.raised, status |-> r.status]
    IN  IF r.raised
        THEN Result([success |-> FALSE, data |-> None], <<call>>, <<Err("api_exception", <<endpoint>>)>>)
        ELSE IF r.status = 200
        THEN Result([success |-> TRUE, data |-> r.body], <<call>>, <<>>)
        ELSE IF r.status = 404
        THEN Result([success |-> FALSE, data |-> None], <<call>>, <<Err("api_not_found", <<endpoint>>)>>)
        ELSE Result([success |-> FALSE, data |-> None], <<call>>,
                    <<Err("api_error", <<endpoint, Str(r.status)>>)>>)

\* _check_branch_exists asking a second time when the first request failed
_check_branch_exists_RetryOnce(branch_name, headers, org, repo, r) ==
    LET api == _call_github_api("branches/" \o branch_name, headers, org, repo, r)
    IN  Result(api.ret.success,
               IF api.ret.success THEN api.calls ELSE api.calls \o api.calls,
               IF api.ret.success THEN api.out ELSE api.out \o api.out)

\* _check_branch_exists
_check_branch_exists(branch_name, headers, org, repo, r) ==
    LET api == _call_github_api("branches/" \o branch_name, headers, org, repo, r)
    IN  Result(api.ret.success, api.calls, api.out)

(***************************************************************************)
(* Step 1: environment.                                                    *)
(***************************************************************************)
\* A test for None only: "" counts as a value
Truthy_IsNotNone(o) == ~IsNone(o)

\* Python truthiness of an optional string: None and "" are falsy
Truthy(o) == ~IsNone(o) /\ Len(Get(o)) > 0

\* _build_headers
_build_headers(github_token) ==
    [Authorization |-> "token " \o github_token,
     Accept |-> "application/vnd.github.v3+json",
     UserAgent |-> "harmony-release-verification-tool"]

\* _verify_environment: returns (github_org, headers) or (None, None)
_verify_environment(environ) ==
    LET github_token == environ.GITHUB_RELEASE_TOKEN
        github_org == environ.GITHUB_ORG_HARMONY
        head == <<Out("step", <<"1/6">>)>>
    IN  IF ~Truthy(github_token)
        THEN Result([org |-> None, headers |-> None], <<>>,
                    head \o <<Err("env_error", <<"GITHUB_RELEASE_TOKEN">>)>>)
        ELSE IF ~Truthy(github_org)
        THEN Result([org |-> None, headers |-> None], <<>>,
                    head \o <<Err("env_error", <<"GITHUB_ORG_HARMONY">>)>>)
        ELSE Result([org |-> github_org, headers |-> Some(_build_headers(Get(github_token)))], <<>>,
                    head \o <<Out("env_ready", <<Get(github_org)>>)>>)

(***************************************************************************)
(* Step 2: branches.                                                       *)
(***************************************************************************)
release_branch == "release-v1.1.0"
base_branch == "main"
repo_name == "harmony"

\* _verify_branches that forgets the base branch
_verify_branches_ReleaseOnly(headers, org, repo, r1, r2) ==
    LET head == <<Out("step", <<"2/6">>)>>
        c1 == _check_branch_exists(release_branch, headers, org, repo, r1)
    IN  IF ~c1.ret
        THEN Result(FALSE, c1.calls,
                    head \o c1.out \o <<Err("branch_error", <<release_branch>>)>>)
        ELSE Result(TRUE, c1.calls,
                    head \o c1.out \o <<Out("branches_ok", <<release_branch, base_branch>>)>>)

\* _verify_branches; r1, r2 are the gateway's answers for the release and the base branch
_verify_branches(headers, org, repo, r1, r2) ==
    LET head == <<Out("step", <<"2/6">>)>>
        c1 == _check_branch_exists(release_branch, headers, org, repo, r1)
        c2 == _check_branch_exists(base_branch, headers, org, repo, r2)
    IN  IF ~c1.ret
        THEN Result(FALSE, c1.calls,
                    head \o c1.out \o <<Err("branch_error", <<release_branch>>)>>)
        ELSE IF ~c2.ret
        THEN Result(FALSE, c1.calls \o c2.calls,
                    head \o c1.out \o c2.out \o <<Err("branch_error", <<base_branch>>)>>)
        ELSE Result(TRUE, c1.calls \o c2.calls,
                    head \o c1.out \o c2.out \o <<Out("branches_ok", <<release_branch, base_branch>>)>>)

\* The answers the API can give to GET branches/{name}
BranchResponses(name) == {Response(200, Some([name |-> name]))} \cup FailureResponses

(***************************************************************************)
(* Step 3: core files.                                                     *)
(***************************************************************************)
\* The core_files list.  A key the dict literal does not have is None.
core_files ==
    << [name |-> "encoding config file", path |-> "src/encoding.rs", branch |-> "main",
        required_content |-> Some("FormattingToken::MetaSep => \"<|meta_sep|>\""),
        required_contents |-> None,
        required_keywords |-> None,
        min_size |-> 500],
       [name |-> "registry file", path |-> "src/registry.rs", branch |-> "main",
        required_content |-> None,
        required_contents |-> Some(<< "(FormattingToken::MetaSep, \"<|meta_sep|>\")",
                                      "(FormattingToken::MetaEnd, \"<|meta_end|>\")" >>),
        required_keywords |-> None,
        min_size |-> 500],
       [name |-> "version config file", path |-> "Cargo.toml", branch |-> "main",
        required_content |-> Some("version = \"1.1.0\""),
        required_contents |-> None,
        required_keywords |-> None,
        min_size |-> 200],
       [name |-> "changelog file", path |-> "CHANGELOG.md", branch |-> "main",
        required_content |-> None,
        required_contents |-> None,
        required_keywords |-> Some(<< "## [1.1.0] - 2025-08-07",
                                      "MetaSep token mapping bug",
                                      "Fixed MetaSep token",
                                      "Registry now properly recognizes" >>),
        min_size |-> 300] >>

\* base64.b64decode(...).decode("utf-8"): the text, or None when decoding raises
B64Utf8Decode(encoded) == IF encoded.valid THEN Some(encoded.text) ELSE None

\* file_data.get("content", "")
ContentField(file_data) ==
    IF IsNone(file_data.content) THEN [valid |-> TRUE, text |-> ""] ELSE Get(file_data.content)

\* _get_file_content: the decoded text or None
_get_file_content(file_path, branch, headers, org, repo, r) ==
    LET api == _call_github_api("contents/" \o file_path \o "?ref=" \o branch, headers, org, repo, r)
    IN  IF ~api.ret.success \/ IsNone(api.ret.data)
        THEN Result(None, api.calls, api.out)
        ELSE LET decoded == B64Utf8Decode(ContentField(Get(api.ret.data)))
             IN  IF IsNone(decoded)
                 THEN Result(None, api.calls, api.out \o <<Err("decode_error", <<file_path>>)>>)
                 ELSE Result(decoded, api.calls, api.out)

\* [c for c in required if c not in file_content]
Missing(required, file_content) == SelectSeq(required, LAMBDA c : ~Contains(c, file_content))

\* [m[:30]+'...' for m in missing]
Abbreviated(missing) == [i \in 1..Len(missing) |-> Prefix(missing[i], 30) \o "..."]

\* ContentDiagnostics with "any" in place of "all" for the two list-valued keys
ContentDiagnostics_AnyOf(file, file_content) ==
    IF ~IsNone(file.required_content)
    THEN IF ~Contains(Get(file.required_content), file_content)
         THEN <<Err("missing_content", <<Prefix(Get(file.required_content), 50) \o "...">>)>>
         ELSE <<>>
    ELSE IF ~IsNone(file.required_contents)
    THEN LET missing == Missing(Get(file.required_contents), file_content)
         IN  IF Len(missing) = Len(Get(file.required_contents))
             THEN <<Err("missing_content", Abbreviated(missing))>>
             ELSE <<>>
    ELSE IF ~IsNone(file.required_keywords)
    THEN LET missing == Missing(Get(file.required_keywords), file_content)
         IN  IF Len(missing) = Len(Get(file.required_keywords))
             THEN <<Err("missing_keywords", missing)>>
             ELSE <<>>
    ELSE <<>>

\* The if / elif chain over required_content, required_contents, required_keywords:
\* the diagnostics of the content check (empty when the content is valid)
ContentDiagnostics(file, file_content) ==
    IF ~IsNone(file.required_content)
    THEN IF ~Contains(Get(file.required_content), file_content)
         THEN <<Err("missing_content", <<Prefix(Get(file.required_content), 50) \o "...">>)>>
         ELSE <<>>
    ELSE IF ~IsNone(file.required_contents)
    THEN LET missing == Missing(Get(file.required_contents), file_content)
         IN  IF Len(missing) > 0
             THEN <<Err("missing_content", Abbreviated(missing))>>
             ELSE <<>>
    ELSE IF ~IsNone(file.required_keywords)
    THEN LET missing == Missing(Get(file.required_keywords), file_content)
         IN  IF Len(missing) > 0
             THEN <<Err("missing_keywords", missing)>>
             ELSE <<>>
    ELSE <<>>

\* One iteration of the loop over core_files: ret is TRUE when the file is accepted
VerifyCoreFile(file, headers, org, repo, r) ==
    The({
    LET head == <<Out("verifying", <<file.name, file.path, file.branch>>)>>
        file_content == got.ret
    IN  IF ~Truthy(file_content)
        THEN Result(FALSE, got.calls, head \o got.out \o <<Err("file_unreadable", <<file.name>>)>>)
        ELSE IF Len(Get(file_content)) < file.min_size
        THEN Result(FALSE, got.calls,
                    head \o got.out \o <<Err("file_too_small",
                        <<file.name, Str(Len(Get(file_content))), Str(file.min_size)>>)>>)
        ELSE The({(IF Len(diags) > 0
                   THEN Result(FALSE, got.calls, head \o got.out \o diags)
                   ELSE Result(TRUE, got.calls, head \o got.out \o <<Out("file_ok", <<file.name>>)>>)) :
                     diags \in {ContentDiagnostics(file, Get(file_content))}})
    : got \in {_get_file_content(file.path, file.branch, headers, org, repo, r)}})

\* NextFileIndex with "break" in place of "continue"
NextFileIndex_BreakOnFailure(i, n, accepted) == IF accepted THEN i + 1 ELSE n + 1

\* The index the loop goes on with after file i: every branch of the body ends
\* in "continue" or falls through, so the next file is always visited
NextFileIndex(i, n, accepted) == i + 1

RECURSIVE CoreFilesLoop(_, _, _, _, _, _)
\* for file in core_files, from index i on; acc carries all_passed, the requests and the prints
CoreFilesLoop(i, rs, headers, org, repo, acc) ==
    IF i > Len(core_files) THEN acc
    ELSE The({CoreFilesLoop(NextFileIndex(i, Len(core_files), one.ret), rs, headers, org, repo,
                            Result(acc.ret /\ one.ret, acc.calls \o one.calls, acc.out \o one.out)) :
                 one \in {VerifyCoreFile(core_files[i], headers, org, repo, rs[i])}})

\* _verify_core_files; rs[i] is the gateway's answer for core_files[i]
_verify_core_files(headers, org, repo, rs) ==
    LET head == <<Out("step", <<"3/6">>)>>
        loop == CoreFilesLoop(1, rs, headers, org, repo, Result(TRUE, <<>>, head))
    IN  IF loop.ret
        THEN Result(TRUE, loop.calls, loop.out \o <<Out("files_ok", <<>>)>>)
        ELSE Result(FALSE, loop.calls, loop.out \o <<Err("files_failed", <<>>)>>)

(***************************************************************************)
(* The answers the API can give to GET contents/{path}?ref={branch}.       *)
(***************************************************************************)
RECURSIVE Pad(_)
\* n filler characters
Pad(n) ==
    IF n <= 0 THEN ""
    ELSE IF n % 2 = 0 THEN The({h \o h : h \in {Pad(n \div 2)}})
    ELSE "x" \o Pad(n - 1)

\* The strings a rule requires, whichever key holds them
RequiredStrings(file) ==
    IF ~IsNone(file.required_content) THEN <<Get(file.required_content)>>
    ELSE IF ~IsNone(file.required_contents) THEN Get(file.required_contents)
    ELSE IF ~IsNone(file.required_keywords) THEN Get(file.required_keywords)
    ELSE <<>>

RECURSIVE Join(_)
Join(strs) == IF Len(strs) = 0 THEN "" ELSE Head(strs) \o " " \o Join(Tail(strs))

\* strs without its k-th element
Without(strs, k) == SubSeq(strs, 1, k - 1) \o SubSeq(strs, k + 1, Len(strs))

\* body padded in front to exactly n characters (or body itself when longer)
PadTo(n, body) == Pad(n - Len(body)) \o body

FileTexts(file) ==
    LET req == RequiredStrings(file)
        all == Join(req)
    IN  {"", PadTo(file.min_size - 1, all), PadTo(file.min_size, all),
         Lower(PadTo(file.min_size, all))}
        \cup {PadTo(file.min_size + 1, Join(Without(req, k))) : k \in 1..Len(req)}

FileResponses(file) ==
    FailureResponses
    \cup {Response(200, None),
          Response(200, Some([content |-> None])),
          Response(200, Some([content |-> Some([valid |-> FALSE, text |-> ""])]))}
    \cup {Response(200, Some([content |-> Some([valid |-> TRUE, text |-> t])])) : t \in FileTexts(file)}

(***************************************************************************)
(* Step 4: release pull request discovery.                                 *)
(***************************************************************************)
pr_title_keyword == "Release v1.1.0"

\* The filter of the loop body: title contains the keyword, ignoring case, and merged_at is set
IsMergedReleasePr(pr, keyword) ==
    LET pr_title == Lower(pr.title)
        is_merged == ~IsNone(pr.merged_at)
    IN  Contains(Lower(keyword), pr_title) /\ is_merged

RECURSIVE FirstMatch_LastWins(_, _, _)
\* FirstMatch without the early return: a later match replaces an earlier one
FirstMatch_LastWins(pr_list, i, keyword) ==
    IF i > Len(pr_list) THEN None
    ELSE LET later == FirstMatch_LastWins(pr_list, i + 1, keyword)
         IN  IF ~IsNone(later) THEN later
             ELSE IF IsMergedReleasePr(pr_list[i], keyword) THEN Some(pr_list[i])
             ELSE None

RECURSIVE FirstMatch(_, _, _)
\* for pr in pr_list: ... return pr; return None
FirstMatch(pr_list, i, keyword) ==
    IF i > Len(pr_list) THEN None
    ELSE IF IsMergedReleasePr(pr_list[i], keyword) THEN Some(pr_list[i])
    ELSE FirstMatch(pr_list, i + 1, keyword)

\* PullsEndpoint without the base parameter
PullsEndpoint_NoBaseFilter(base) == "pulls?state=closed&per_page=100"

\* The endpoint of the listing: closed pull requests whose base is base
PullsEndpoint(base) == "pulls?state=closed&base=" \o base \o "&per_page=100"

\* _find_merged_pr: the selected list entry or None
_find_merged_pr(keyword, base, headers, org, repo, r) ==
    LET api == _call_github_api(PullsEndpoint(base), headers, org, repo, r)
    IN  IF ~api.ret.success \/ IsNone(api.ret.data) \/ ~Get(api.ret.data).is_list
        THEN Result(None, api.calls, api.out)
        ELSE Result(FirstMatch(Get(api.ret.data).items, 1, keyword), api.calls, api.out)

\* _verify_release_pr: the number of the release pull request or None
_verify_release_pr(headers, org, repo, r) ==
    LET head == <<Out("step", <<"4/6">>)>>
        found == _find_merged_pr(pr_title_keyword, base_branch, headers, org, repo, r)
        release_pr == found.ret
    IN  IF IsNone(release_pr)
        THEN Result(None, found.calls,
                    head \o found.out \o <<Err("pr_not_found", <<pr_title_keyword, base_branch>>)>>)
        ELSE Result(Some(Get(release_pr).number), found.calls,
                    head \o found.out \o <<Out("pr_found",
                        <<Str(Get(release_pr).number), Get(release_pr).title,
                          Prefix(Get(Get(release_pr).merged_at), 10)>>)>>)

(***************************************************************************)
(* Step 5: merge target.                                                   *)
(***************************************************************************)
\* The expected base set to the development branch
expected_base_Develop == "develop"

expected_base == "main"

\* _verify_pr_merge_target that returns False on a failed fetch without its diagnostic
_verify_pr_merge_target_SilentFetchFailure(pr_number, headers, org, repo, r) ==
    LET head == <<Out("step", <<"5/6">>)>>
        api == _call_github_api("pulls/" \o Str(pr_number), headers, org, repo, r)
    IN  IF ~api.ret.success \/ IsNone(api.ret.data)
        THEN Result(FALSE, api.calls, head \o api.out)
        ELSE LET actual_base == Get(api.ret.data).base.ref
             IN  IF actual_base # expected_base
                 THEN Result(FALSE, api.calls,
                             head \o api.out \o <<Err("target_error",
                                 <<Str(pr_number), actual_base, expected_base>>)>>)
                 ELSE Result(TRUE, api.calls, head \o api.out \o <<Out("target_ok", <<Str(pr_number)>>)>>)

\* _verify_pr_merge_target
_verify_pr_merge_target(pr_number, headers, org, repo, r) ==
    LET head == <<Out("step", <<"5/6">>)>>
        api == _call_github_api("pulls/" \o Str(pr_number), headers, org, repo, r)
    IN  IF ~api.ret.success \/ IsNone(api.ret.data)
        THEN Result(FALSE, api.calls, head \o api.out \o <<Err("pr_detail_error", <<Str(pr_number)>>)>>)
        ELSE LET actual_base == Get(api.ret.data).base.ref
             IN  IF actual_base # expected_base
                 THEN Result(FALSE, api.calls,
                             head \o api.out \o <<Err("target_error",
                                 <<Str(pr_number), actual_base, expected_base>>)>>)
                 ELSE Result(TRUE, api.calls, head \o api.out \o <<Out("target_ok", <<Str(pr_number)>>)>>)

(***************************************************************************)
(* Step 6: merge method.                                                   *)
(***************************************************************************)
\* _verify_squash_merge that looks for "#" alone in the commit message
_verify_squash_merge_AnyReference(pr_number, headers, org, repo, r_pr, r_commit) ==
    LET api1 == _call_github_api("pulls/" \o Str(pr_number), headers, org, repo, r_pr)
    IN  IF ~api1.ret.success \/ IsNone(api1.ret.data)
        THEN Result(FALSE, api1.calls, api1.out)
        ELSE LET merge_commit_sha == Get(api1.ret.data).merge_commit_sha
             IN  IF ~Truthy(merge_commit_sha)
                 THEN Result(FALSE, api1.calls, api1.out \o <<Err("no_merge_commit", <<Str(pr_number)>>)>>)
                 ELSE
    LET api2 == _call_github_api("commits/" \o Get(merge_commit_sha), headers, org, repo, r_commit)
        calls == api1.calls \o api2.calls
        out == api1.out \o api2.out
    IN  IF ~api2.ret.success \/ IsNone(api2.ret.data)
        THEN Result(FALSE, calls, out)
        ELSE LET commit_detail == Get(api2.ret.data)
                 parent_count == Len(commit_detail.parents)
                 commit_msg == commit_detail.commit.message
             IN  IF parent_count # 1
                 THEN Result(FALSE, calls, out \o <<Err("wrong_parent_count", <<Str(parent_count)>>)>>)
                 ELSE IF ~Contains("#", commit_msg)
                 THEN Result(FALSE, calls, out \o <<Err("missing_pr_reference", <<Str(pr_number)>>)>>)
                 ELSE Result(TRUE, calls, out)

\* _verify_squash_merge; r_pr and r_commit answer GET pulls/{n} and GET commits/{sha}
_verify_squash_merge(pr_number, headers, org, repo, r_pr, r_commit) ==
    LET api1 == _call_github_api("pulls/" \o Str(pr_number), headers, org, repo, r_pr)
    IN  IF ~api1.ret.success \/ IsNone(api1.ret.data)
        THEN Result(FALSE, api1.calls, api1.out)
        ELSE LET merge_commit_sha == Get(api1.ret.data).merge_commit_sha
             IN  IF ~Truthy(merge_commit_sha)
                 THEN Result(FALSE, api1.calls, api1.out \o <<Err("no_merge_commit", <<Str(pr_number)>>)>>)
                 ELSE
    LET api2 == _call_github_api("commits/" \o Get(merge_commit_sha), headers, org, repo, r_commit)
        calls == api1.calls \o api2.calls
        out == api1.out \o api2.out
    IN  IF ~api2.ret.success \/ IsNone(api2.ret.data)
        THEN Result(FALSE, calls, out)
        ELSE LET commit_detail == Get(api2.ret.data)
                 parent_count == Len(commit_detail.parents)
                 commit_msg == commit_detail.commit.message
             IN  IF parent_count # 1
                 THEN Result(FALSE, calls, out \o <<Err("wrong_parent_count", <<Str(parent_count)>>)>>)
                 ELSE IF ~Contains("#" \o Str(pr_number), commit_msg)
                 THEN Result(FALSE, calls, out \o <<Err("missing_pr_reference", <<Str(pr_number)>>)>>)
                 ELSE Result(TRUE, calls, out)

\* _verify_merge_method running the squash merge check a second time when it failed
_verify_merge_method_CheckTwice(pr_number, headers, org, repo, r_pr, r_commit) ==
    LET head == <<Out("step", <<"6/6">>)>>
        squash == _verify_squash_merge(pr_number, headers, org, repo, r_pr, r_commit)
    IN  IF squash.ret
        THEN Result(TRUE, squash.calls, head \o squash.out \o <<Out("merge_method_ok", <<Str(pr_number)>>)>>)
        ELSE Result(FALSE, squash.calls \o squash.calls,
                    head \o squash.out \o squash.out \o <<Err("merge_method_error", <<Str(pr_number)>>)>>)

\* _verify_merge_method
_verify_merge_method(pr_number, headers, org, repo, r_pr, r_commit) ==
    LET head == <<Out("step", <<"6/6">>)>>
        squash == _verify_squash_merge(pr_number, headers, org, repo, r_pr, r_commit)
    IN  IF squash.ret
        THEN Result(TRUE, squash.calls, head \o squash.out \o <<Out("merge_method_ok", <<Str(pr_number)>>)>>)
        ELSE Result(FALSE, squash.calls, head \o squash.out \o <<Err("merge_method_error", <<Str(pr_number)>>)>>)

(***************************************************************************)
(* The answers the API can give to the pull request and commit requests.   *)
(***************************************************************************)
PrNumbers == {42, 43}
Branches == {"main", "develop"}
Titles == {"Release v1.1.0", "chore: RELEASE V1.1.0 notes", "Release v1.1.1"}
Timestamps == {None, Some("2025-08-07T12:00:00Z")}
Shas == {None, Some("5f2c1e9")}

PullRequests ==
    [number : PrNumbers, title : Titles, merged_at : Timestamps,
     base : [ref : Branches], merge_commit_sha : Shas]

\* Sequences over S of length at most n
SeqsUpTo(S, n) == UNION {[1..k -> S] : k \in 0..n}

\* The position of the first occurrence of needle in hay, 0 when there is none
IndexOf(needle, hay) ==
    LET hits == {i \in 1..(Len(hay) - Len(needle) + 1) : SubSeq(hay, i, i + Len(needle) - 1) = needle}
    IN  IF hits = {} THEN 0 ELSE CHOOSE i \in hits : \A j \in hits : i <= j

\* The value of the base parameter in the query of a listing request, None when it has none
BaseParam(endpoint) ==
    LET p == IndexOf("base=", endpoint)
        rest == SubSeq(endpoint, p + 5, Len(endpoint))
        q == IndexOf("&", rest)
    IN  IF p = 0 THEN None
        ELSE IF q = 0 THEN Some(rest)
        ELSE Some(SubSeq(rest, 1, q - 1))

\* GET pulls?state=closed[&base={base}]: with a base parameter the API lists only
\* pull requests whose base is that branch
PullsResponses(filter) ==
    FailureResponses
    \cup {Response(200, None), Response(200, Some([is_list |-> FALSE, items |-> <<>>]))}
    \cup {Response(200, Some([is_list |-> TRUE, items |-> l])) :
            l \in SeqsUpTo({pr \in PullRequests : /\ IsNone(filter) \/ pr.base.ref = Get(filter)
                                                  /\ pr.merge_commit_sha = Some("5f2c1e9")}, MaxPRs)}

\* GET pulls/{number}
PullResponses(number) ==
    FailureResponses
    \cup {Response(200, None)}
    \cup {Response(200, Some(pr)) : pr \in {p \in PullRequests : p.number = number
                                                                 /\ p.title = "Release v1.1.0"
                                                                 /\ ~IsNone(p.merged_at)}}

Messages == {"Release v1.1.0 (#42)", "Release v1.1.0", "Merge pull request #43 from harmony/release-v1.1.0"}
ParentLists == {[i \in 1..k |-> [sha |-> "a0" \o Str(i)]] : k \in 0..MaxParents}

\* GET commits/{sha}
CommitResponses ==
    FailureResponses
    \cup {Response(200, None)}
    \cup {Response(200, Some([sha |-> "5f2c1e9", parents |-> ps, commit |-> [message |-> m]])) :
            ps \in ParentLists, m \in Messages}

(***************************************************************************)
(* The run: run_harmony_release_verification and the script entry point.   *)
(***************************************************************************)
VARIABLES
    pc,                    \* the step the run is at, or Done / Failed once it has returned
    environ,               \* os.environ after load_dotenv
    github_org, headers,   \* locals of the run, set by step 1
    pr_number,             \* local of the run, set by step 4
    calls,                 \* the requests issued so far, in order
    out,                   \* everything printed so far, in order
    gw,                    \* the step that ran last and the answers the API had for it
    verification_success,  \* the value returned by the run, None while it runs
    exit_code              \* the argument of sys.exit, None until the script exits

vars == <<pc, environ, github_org, headers, pr_number, calls, out, gw,
          verification_success, exit_code>>

\* The file step called before the branch step
Steps_FilesFirst == <<"Environment", "Files", "Branches", "PRDiscovery", "PRTarget", "MergeMethod">>

Steps == <<"Environment", "Branches", "Files", "PRDiscovery", "PRTarget", "MergeMethod">>

StepIndex(step) == CHOOSE i \in 1..Len(Steps) : Steps[i] = step

\* NextPc with the "return False" after the branch step left out
NextPc_NoReturnAfterBranches(step, passed) ==
    IF ~passed /\ step # "Branches" THEN "Failed"
    ELSE IF StepIndex(step) = Len(Steps) THEN "Done"
    ELSE Steps[StepIndex(step) + 1]

\* The transition rule of the run: each step is followed by "if not ...: return False"
NextPc(step, passed) ==
    IF ~passed THEN "Failed"
    ELSE IF StepIndex(step) = Len(Steps) THEN "Done"
    ELSE Steps[StepIndex(step) + 1]

\* The value the run returns on reaching p, None while it is still running
Returned(p) ==
    IF p = "Failed" THEN Some(FALSE)
    ELSE IF p = "Done" THEN Some(TRUE)
    ELSE None

\* ExitCode with the failure status lost
ExitCode_AlwaysZero(success) == 0

\* sys.exit(0 if verification_success else 1)
ExitCode(success) == IF success THEN 0 ELSE 1

EnvValues(value) == {None, Some(""), Some(value)}

Init ==
    /\ pc = "Environment"
    /\ environ \in [GITHUB_RELEASE_TOKEN : EnvValues("ghp_release"),
                    GITHUB_ORG_HARMONY : EnvValues("my-team-harmony")]
    /\ github_org = None
    /\ headers = None
    /\ pr_number = None
    /\ calls = <<>>
    /\ out = <<>>
    /\ gw = [step |-> "", answers |-> <<>>]
    /\ verification_success = None
    /\ exit_code = None

\* What every step does with the result of its function
Advance(step, res, passed) ==
    /\ pc' = NextPc(step, passed)
    /\ verification_success' = Returned(pc')
    /\ calls' = calls \o res.calls
    /\ out' = out \o res.out \o (IF pc' = "Done" THEN <<Out("summary", <<>>)>> ELSE <<>>)

\* The API has one of the answers ready for each request the step may issue
Asked(step, answers) == gw' \in [step : {step}, answers : answers]

\* Step 1: github_org, headers = _verify_environment()
Environment ==
    /\ pc = "Environment"
    /\ Asked("Environment", {<<>>})
    /\ \E res \in {_verify_environment(environ)} :
           /\ github_org' = res.ret.org
           /\ headers' = res.ret.headers
           /\ Advance("Environment", res, Truthy(res.ret.org) /\ ~IsNone(res.ret.headers))
    /\ UNCHANGED <<environ, pr_number, exit_code>>

\* Step 2: _verify_branches(headers, github_org, repo_name)
BranchesStep ==
    /\ pc = "Branches"
    /\ Asked("Branches", BranchResponses(release_branch) \X BranchResponses(base_branch))
    /\ \E res \in {_verify_branches(Get(headers), Get(github_org), repo_name,
                                     gw'.answers[1], gw'.answers[2])} :
         Advance("Branches", res, res.ret)
    /\ UNCHANGED <<environ, github_org, headers, pr_number, exit_code>>

\* One answer for the request of each core file
FileAnswers ==
    FileResponses(core_files[1]) \X FileResponses(core_files[2])
    \X FileResponses(core_files[3]) \X FileResponses(core_files[4])

\* Step 3: _verify_core_files(headers, github_org, repo_name)
FilesStep ==
    /\ pc = "Files"
    /\ Asked("Files", FileAnswers)
    /\ \E res \in {_verify_core_files(Get(headers), Get(github_org), repo_name, gw'.answers)} :
         Advance("Files", res, res.ret)
    /\ UNCHANGED <<environ, github_org, headers, pr_number, exit_code>>

\* The API answers the listing request of _find_merged_pr as its base parameter demands
ListingAnswers == {<<r>> : r \in PullsResponses(BaseParam(PullsEndpoint(base_branch)))}

\* Step 4: pr_number = _verify_release_pr(headers, github_org, repo_name);
\* the API answers the listing request as its base parameter demands
PRDiscoveryStep ==
    /\ pc = "PRDiscovery"
    /\ Asked("PRDiscovery", ListingAnswers)
    /\ \E res \in {_verify_release_pr(Get(headers), Get(github_org), repo_name, gw'.answers[1])} :
         /\ pr_number' = res.ret
         /\ Advance("PRDiscovery", res, ~IsNone(res.ret) /\ Get(res.ret) # 0)
    /\ UNCHANGED <<environ, github_org, headers, exit_code>>

\* Step 5: _verify_pr_merge_target(pr_number, headers, github_org, repo_name)
PRTargetStep ==
    /\ pc = "PRTarget"
    /\ Asked("PRTarget", {<<r>> : r \in PullResponses(Get(pr_number))})
    /\ \E res \in {_verify_pr_merge_target(Get(pr_number), Get(headers), Get(github_org), repo_name,
                                            gw'.answers[1])} :
         Advance("PRTarget", res, res.ret)
    /\ UNCHANGED <<environ, github_org, headers, pr_number, exit_code>>

\* Step 6: _verify_merge_method(pr_number, headers, github_org, repo_name)
MergeMethodStep ==
    /\ pc = "MergeMethod"
    /\ Asked("MergeMethod", PullResponses(Get(pr_number)) \X CommitResponses)
    /\ \E res \in {_verify_merge_method(Get(pr_number), Get(headers), Get(github_org), repo_name,
                                         gw'.answers[1], gw'.answers[2])} :
         Advance("MergeMethod", res, res.ret)
    /\ UNCHANGED <<environ, github_org, headers, pr_number, exit_code>>

\* The entry point: sys.exit(0 if verification_success else 1)
Exit ==
    /\ ~IsNone(verification_success)
    /\ IsNone(exit_code)
    /\ exit_code' = Some(ExitCode(Get(verification_success)))
    /\ UNCHANGED <<pc, environ, github_org, headers, pr_number, calls, out, gw, verification_success>>

Next ==
    \/ Environment
    \/ BranchesStep
    \/ FilesStep
    \/ PRDiscoveryStep
    \/ PRTargetStep
    \/ MergeMethodStep
    \/ Exit

Spec == Init /\ [][Next]_vars

(***************************************************************************)
(* The run on arbitrary JSON.  A 200 answer need not have the documented   *)
(* shape: a list element may not be an object, and "title", "base" and     *)
(* "parents" may hold null.  A payload is written as the documented record *)
(* plus markers: title_null = TRUE stands for "title": null, and so on;    *)
(* is_object = FALSE for an element that is a string or a number.  The     *)
(* script has no try / except around its steps: an exception raised while  *)
(* a payload is read ends the run with a traceback and exit status 1.      *)
(***************************************************************************)
Completed(ret, made, printed) == [uncaught |-> FALSE, ret |-> ret, calls |-> made, out |-> printed]
Uncaught(exception, made, printed) ==
    [uncaught |-> TRUE, ret |-> None, calls |-> made,
     out |-> printed \o <<Err("traceback", <<exception>>)>>]

\* The documented payload behind a listing whose elements carry markers
TypedListing(r) ==
    IF ~r.raised /\ r.status = 200 /\ ~IsNone(r.body) /\ Get(r.body).is_list
    THEN Response(200, Some([is_list |-> TRUE,
                             items |-> [i \in 1..Len(Get(r.body).items) |-> Get(r.body).items[i].pr]]))
    ELSE r

RECURSIVE LoopRaises(_, _, _)
\* for pr in pr_list: pr.get("title", "").lower() raises AttributeError on an element that
\* is not an object and on a null title; the loop ends at the first match
LoopRaises(pr_list, i, keyword) ==
    IF i > Len(pr_list) THEN FALSE
    ELSE IF ~pr_list[i].is_object \/ pr_list[i].title_null THEN TRUE
    ELSE IF IsMergedReleasePr(pr_list[i].pr, keyword) THEN FALSE
    ELSE LoopRaises(pr_list, i + 1, keyword)

\* _verify_release_pr on arbitrary JSON
_verify_release_pr_json(hdrs, org, repo, r) ==
    LET api == _call_github_api(PullsEndpoint(base_branch), hdrs, org, repo, r)
    IN  IF /\ api.ret.success /\ ~IsNone(api.ret.data) /\ Get(api.ret.data).is_list
           /\ LoopRaises(Get(api.ret.data).items, 1, pr_title_keyword)
        THEN Uncaught("AttributeError", api.calls, <<Out("step", <<"4/6">>)>> \o api.out)
        ELSE The({Completed(res.ret, res.calls, res.out) :
                    res \in {_verify_release_pr(hdrs, org, repo, TypedListing(r))}})

\* _verify_pr_merge_target on arbitrary JSON: pr_detail.get("base", {}).get("ref") raises
\* AttributeError on a null base
_verify_pr_merge_target_json(number, hdrs, org, repo, r) ==
    LET api == _call_github_api("pulls/" \o Str(number), hdrs, org, repo, r)
    IN  IF api.ret.success /\ ~IsNone(api.ret.data) /\ Get(api.ret.data).base_null
        THEN Uncaught("AttributeError", api.calls, <<Out("step", <<"5/6">>)>> \o api.out)
        ELSE The({Completed(res.ret, res.calls, res.out) :
                    res \in {_verify_pr_merge_target(number, hdrs, org, repo,
                                 IF IsNone(r.body) THEN r ELSE Response(r.status, Some(Get(r.body).pr)))}})

\* _verify_merge_method on arbitrary JSON: len(commit_detail.get("parents", [])) raises
\* TypeError on null parents
_verify_merge_method_json(number, hdrs, org, repo, r_pr, r_commit) ==
    LET api1 == _call_github_api("pulls/" \o Str(number), hdrs, org, repo, r_pr)
        api2 == _call_github_api("commits/" \o Get(Get(api1.ret.data).merge_commit_sha),
                                 hdrs, org, repo, r_commit)
    IN  IF /\ api1.ret.success /\ ~IsNone(api1.ret.data)
           /\ Truthy(Get(api1.ret.data).merge_commit_sha)
           /\ api2.ret.success /\ ~IsNone(api2.ret.data)
           /\ Get(api2.ret.data).parents_null
        THEN Uncaught("TypeError", api1.calls \o api2.calls,
                      <<Out("step", <<"6/6">>)>> \o api1.out \o api2.out)
        ELSE The({Completed(res.ret, res.calls, res.out) :
                    res \in {_verify_merge_method(number, hdrs, org, repo, r_pr,
                                 IF IsNone(r_commit.body) THEN r_commit
                                 ELSE Response(r_commit.status, Some(Get(r_commit.body).commit)))}})

\* The answers to the listing, list elements of any shape
JsonListEntries(filter) ==
    {[is_object |-> TRUE, title_null |-> FALSE, pr |-> pr] :
        pr \in {p \in PullRequests : /\ IsNone(filter) \/ p.base.ref = Get(filter)
                                     /\ p.merge_commit_sha = Some("5f2c1e9")}}
    \cup {[is_object |-> o, title_null |-> ~o,
           pr |-> [number |-> 42, title |-> "", merged_at |-> Some("2025-08-07T12:00:00Z"),
                   base |-> [ref |-> "main"], merge_commit_sha |-> Some("5f2c1e9")]] : o \in BOOLEAN}

PullsResponsesJson(filter) ==
    FailureResponses
    \cup {Response(200, None), Response(200, Some([is_list |-> FALSE, items |-> <<>>]))}
    \cup {Response(200, Some([is_list |-> TRUE, items |-> l])) :
            l \in SeqsUpTo(JsonListEntries(filter), MaxPRs)}

\* The answers to GET pulls/{number}, the base possibly null
PullResponsesJson(number) ==
    {IF IsNone(r.body) THEN r ELSE Response(r.status, Some([pr |-> Get(r.body), base_null |-> n])) :
        r \in PullResponses(number), n \in BOOLEAN}

\* The answers to GET commits/{sha}, the parents possibly null
CommitResponsesJson ==
    {IF IsNone(r.body) THEN r ELSE Response(r.status, Some([commit |-> Get(r.body), parents_null |-> n])) :
        r \in CommitResponses, n \in BOOLEAN}

\* What a step does with the result of its function when the function can raise
AdvanceJson(step, res, passed) ==
    /\ pc' = IF res.uncaught THEN "Crashed" ELSE NextPc(step, passed)
    /\ verification_success' = Returned(pc')
    /\ calls' = calls \o res.calls
    /\ out' = out \o res.out \o (IF pc' = "Done" THEN <<Out("summary", <<>>)>> ELSE <<>>)

ListingAnswersJson == {<<r>> : r \in PullsResponsesJson(BaseParam(PullsEndpoint(base_branch)))}

\* Step 4 on arbitrary JSON
PRDiscoveryJson ==
    /\ pc = "PRDiscovery"
    /\ Asked("PRDiscovery", ListingAnswersJson)
    /\ \E res \in {_verify_release_pr_json(Get(headers), Get(github_org), repo_name,
                                            gw'.answers[1])} :
         /\ pr_number' = res.ret
         /\ AdvanceJson("PRDiscovery", res, ~IsNone(res.ret) /\ Get(res.ret) # 0)
    /\ UNCHANGED <<environ, github_org, headers, exit_code>>

\* Step 5 on arbitrary JSON
PRTargetJson ==
    /\ pc = "PRTarget"
    /\ Asked("PRTarget", {<<r>> : r \in PullResponsesJson(Get(pr_number))})
    /\ \E res \in {_verify_pr_merge_target_json(Get(pr_number), Get(headers), Get(github_org),
                                                 repo_name, gw'.answers[1])} :
         AdvanceJson("PRTarget", res, ~res.uncaught /\ res.ret)
    /\ UNCHANGED <<environ, github_org, headers, pr_number, exit_code>>

\* Step 6 on arbitrary JSON
MergeMethodJson ==
    /\ pc = "MergeMethod"
    /\ Asked("MergeMethod", PullResponses(Get(pr_number)) \X CommitResponsesJson)
    /\ \E res \in {_verify_merge_method_json(Get(pr_number), Get(headers), Get(github_org),
                                              repo_name, gw'.answers[1], gw'.answers[2])} :
         AdvanceJson("MergeMethod", res, ~res.uncaught /\ res.ret)
    /\ UNCHANGED <<environ, github_org, headers, pr_number, exit_code>>

\* An uncaught exception ends the interpreter with status 1
ExitUncaught ==
    /\ pc = "Crashed"
    /\ IsNone(exit_code)
    /\ exit_code' = Some(1)
    /\ UNCHANGED <<pc, environ, github_org, headers, pr_number, calls, out, gw, verification_success>>

NextJson ==
    \/ Environment
    \/ BranchesStep
    \/ FilesStep
    \/ PRDiscoveryJson
    \/ PRTargetJson
    \/ MergeMethodJson
    \/ Exit
    \/ ExitUncaught

SpecJson == Init /\ [][NextJson]_vars

(***************************************************************************)
(* Observations used by the properties.                                    *)
(***************************************************************************)
\* The print that closes a step with its verdict
PassTags == {"env_ready", "branches_ok", "files_ok", "pr_found", "target_ok", "merge_method_ok"}
FailTags == {"env_error", "branch_error", "files_failed", "pr_not_found",
             "pr_detail_error", "target_error", "merge_method_error"}

StepOfTag(tag) ==
    CASE tag \in {"env_ready", "env_error"} -> "Environment"
      [] tag \in {"branches_ok", "branch_error"} -> "Branches"
      [] tag \in {"files_ok", "files_failed"} -> "Files"
      [] tag \in {"pr_found", "pr_not_found"} -> "PRDiscovery"
      [] tag \in {"target_ok", "pr_detail_error", "target_error"} -> "PRTarget"
      [] tag \in {"merge_method_ok", "merge_method_error"} -> "MergeMethod"

Verdicts == SelectSeq(out, LAMBDA e : e.tag \in PassTags \cup FailTags)

\* The report of the run: one outcome per verdict printed, in print order
Report == [i \in 1..Len(Verdicts) |->
             [name |-> StepOfTag(Verdicts[i].tag), passed |-> Verdicts[i].tag \in PassTags]]

\* The steps started so far: the "[k/6]" headers printed
Started == SelectSeq(out, LAMBDA e : e.tag = "step")

AnyStepFailed == \E i \in 1..Len(Report) : ~Report[i].passed

Printed(line) == \E i \in 1..Len(out) : out[i] = line

\* The API answered the request with success
Ok(r) == ~r.raised /\ r.status = 200

\* The answers the API had for the step that ran last
Answer(i) == gw.answers[i]

(***************************************************************************)
(* C1.  Fail-fast: once a step has failed, no later step is started and no *)
(* further request is issued; when the release branch is missing the run   *)
(* stops at the branch step having issued the one branch request only.     *)
(***************************************************************************)
C1_FailFast ==
    /\ [][AnyStepFailed => (calls' = calls /\ Started' = Started /\ Report' = Report)]_vars
    /\ []((gw.step = "Branches" /\ ~Ok(Answer(1))) =>
            /\ pc = "Failed"
            /\ Len(calls) = 1
            /\ calls[1].endpoint = "branches/release-v1.1.0"
            /\ Len(Started) = 2)

C1_Witness ==
    /\ gw.step = "Branches"
    /\ Answer(1) = NotFound
    /\ Ok(Answer(2))
    /\ exit_code = Some(1)

(***************************************************************************)
(* C2.  The run returns True, and the script exits with code 0, if and     *)
(* only if all six steps passed; every other run, a configuration error    *)
(* included, returns False and exits with code 1.                          *)
(***************************************************************************)
AllSixPassed ==
    /\ Len(Report) = Len(Steps)
    /\ \A i \in 1..Len(Report) : Report[i].name = Steps[i] /\ Report[i].passed

C2_SuccessIffAllPassed ==
    /\ ~IsNone(verification_success) => (Get(verification_success) <=> AllSixPassed)
    /\ ~IsNone(exit_code) => Get(exit_code) = (IF AllSixPassed THEN 0 ELSE 1)
    /\ (pc \in {"Done", "Failed"}) <=> ~IsNone(verification_success)

C2_Witness ==
    /\ exit_code = Some(0)
    /\ AllSixPassed

(***************************************************************************)
(* C3.  Every step that has run left exactly one outcome in the report: in *)
(* a run whose first failing step is step k the report holds the outcomes  *)
(* of steps 1..k, the first k-1 passed and the last failed.                *)
(***************************************************************************)
C3_ReportPrefix ==
    LET n == Len(Report)
    IN  /\ Len(Started) = n
        /\ \A i \in 1..n : Report[i].name = Steps[i] /\ Started[i].args = <<Str(i) \o "/6">>
        /\ \A i \in 1..(n - 1) : Report[i].passed
        /\ pc = "Failed" => n >= 1 /\ ~Report[n].passed
        /\ pc = "Done" => n = Len(Steps) /\ Report[n].passed
        /\ pc \notin {"Failed", "Done"} => n = StepIndex(pc) - 1 /\ (n >= 1 => Report[n].passed)

\* A merge commit with two parents: five steps passed, the merge method step failed
C3_Witness ==
    /\ gw.step = "MergeMethod"
    /\ Len(calls) = 10
    /\ Ok(Answer(2))
    /\ ~IsNone(Answer(2).body)
    /\ Len(Get(Answer(2).body).parents) = 2
    /\ Len(Report) = 6
    /\ \A i \in 1..5 : Report[i].passed
    /\ ~Report[6].passed

(***************************************************************************)
(* C4.  As stated: the branch step passes if and only if both branch       *)
(* requests succeed, and every missing branch is named by a diagnostic.    *)
(***************************************************************************)
BranchNamed(branch) == Printed(Err("branch_error", <<branch>>))

C4_Original ==
    gw.step = "Branches" =>
        /\ Report[2].passed <=> (Ok(Answer(1)) /\ Ok(Answer(2)))
        /\ ~Ok(Answer(1)) => BranchNamed(release_branch)
        /\ ~Ok(Answer(2)) => BranchNamed(base_branch)

(***************************************************************************)
(* C4, amended.  The branch step passes if and only if both branch         *)
(* requests succeed.  When the release branch is missing the step fails    *)
(* naming the release branch only, and the base branch is not queried;     *)
(* when only the base branch is missing the step fails naming it.          *)
(***************************************************************************)
C4_BranchCheck ==
    gw.step = "Branches" =>
        /\ Report[2].passed <=> (Ok(Answer(1)) /\ Ok(Answer(2)))
        /\ ~Ok(Answer(1)) =>
             /\ BranchNamed(release_branch)
             /\ ~BranchNamed(base_branch)
             /\ Len(calls) = 1
        /\ (Ok(Answer(1)) /\ ~Ok(Answer(2))) =>
             /\ BranchNamed(base_branch)
             /\ ~BranchNamed(release_branch)
             /\ Len(calls) = 2

C4_Witness ==
    /\ gw.step = "Branches"
    /\ ~Ok(Answer(1))
    /\ ~Ok(Answer(2))
    /\ BranchNamed(release_branch)

(***************************************************************************)
(* C5.  The file step passes if and only if every rule holds of the answer *)
(* to its request: the content is available, it has at least min_size      *)
(* characters, and every required string occurs in it, case-sensitively.   *)
(* A file that lacks one required string makes exactly its own rule fail,  *)
(* and the step with it; the other rules are decided by their own files.   *)
(***************************************************************************)
Available(r) ==
    /\ Ok(r)
    /\ ~IsNone(r.body)
    /\ ~IsNone(Get(r.body).content)
    /\ Get(Get(r.body).content).valid

TextOf(r) == Get(Get(r.body).content).text

\* The required strings of core_files[i] that do not occur in the text of r
Lacking(i, r) ==
    {k \in 1..Len(RequiredStrings(core_files[i])) :
        ~Contains(RequiredStrings(core_files[i])[k], TextOf(r))}

RuleHolds(i, r) ==
    /\ Available(r)
    /\ Len(TextOf(r)) >= core_files[i].min_size
    /\ Lacking(i, r) = {}

RuleAccepted(i) == Printed(Out("file_ok", <<core_files[i].name>>))

FileRules == 1..Len(core_files)

C5_FileIntegrity ==
    gw.step = "Files" =>
        /\ \A i \in FileRules : RuleAccepted(i) <=> RuleHolds(i, Answer(i))
        /\ Report[3].passed <=> \A i \in FileRules : RuleHolds(i, Answer(i))
        /\ \A i \in FileRules :
             (/\ Available(Answer(i))
              /\ Len(TextOf(Answer(i))) >= core_files[i].min_size
              /\ Cardinality(Lacking(i, Answer(i))) = 1)
             => ~RuleAccepted(i) /\ ~Report[3].passed

\* The registry file lacks one of its two strings; the other three files are in order
C5_Witness ==
    /\ gw.step = "Files"
    /\ Available(Answer(2))
    /\ Len(TextOf(Answer(2))) >= core_files[2].min_size
    /\ Cardinality(Lacking(2, Answer(2))) = 1
    /\ ~RuleAccepted(2)
    /\ \A i \in FileRules \ {2} : RuleHolds(i, Answer(i)) /\ RuleAccepted(i)
    /\ ~Report[3].passed

(***************************************************************************)
(* C6.  The file step does not stop at a failing file: whenever it has run *)
(* it has requested every file of core_files exactly once, in list order.  *)
(***************************************************************************)
FileEndpoints ==
    << "contents/src/encoding.rs?ref=main",
       "contents/src/registry.rs?ref=main",
       "contents/Cargo.toml?ref=main",
       "contents/CHANGELOG.md?ref=main" >>

\* The requests for file contents, in the order issued
ContentCalls == SelectSeq(calls, LAMBDA c : Len(c.endpoint) >= 9 /\ SubSeq(c.endpoint, 1, 9) = "contents/")

C6_AllFilesFetched ==
    /\ Len(Report) >= 3 =>
         /\ [i \in 1..Len(ContentCalls) |-> ContentCalls[i].endpoint] = FileEndpoints
         /\ \A i \in 1..4 : calls[2 + i].endpoint = FileEndpoints[i]
    /\ Len(Report) < 3 => ContentCalls = <<>>

\* All four kinds of failure in one run: not found, undecodable, too small, content missing
C6_Witness ==
    /\ gw.step = "Files"
    /\ Answer(1) = NotFound
    /\ Ok(Answer(2)) /\ ~IsNone(Answer(2).body) /\ ~IsNone(Get(Answer(2).body).content)
    /\ ~Get(Get(Answer(2).body).content).valid
    /\ Available(Answer(3)) /\ TextOf(Answer(3)) # ""
    /\ Len(TextOf(Answer(3))) < core_files[3].min_size
    /\ Available(Answer(4)) /\ Len(TextOf(Answer(4))) >= core_files[4].min_size
    /\ Lacking(4, Answer(4)) # {}
    /\ Len(ContentCalls) = 4

(***************************************************************************)
(* C7.  Discovery selects the entry of lowest index whose title contains   *)
(* the keyword, ignoring case, and whose merged_at is set, wherever it is  *)
(* in the list and however many entries match; it fails exactly when the   *)
(* listing is not available or no entry satisfies both conditions.         *)
(***************************************************************************)
Listed(r) == Ok(r) /\ ~IsNone(r.body) /\ Get(r.body).is_list

Items(r) == IF Listed(r) THEN Get(r.body).items ELSE <<>>

TitleMatches(pr) == Contains("release v1.1.0", Lower(pr.title))

Matching(items) == {i \in 1..Len(items) : TitleMatches(items[i]) /\ ~IsNone(items[i].merged_at)}

C7_Discovery ==
    gw.step = "PRDiscovery" =>
        LET items == Items(Answer(1))
            M == Matching(items)
        IN  IF M # {}
            THEN LET k == CHOOSE i \in M : \A j \in M : i <= j
                 IN  /\ Report[4].passed
                     /\ pr_number = Some(items[k].number)
                     /\ Printed(Out("pr_found", <<Str(items[k].number), items[k].title, "2025-08-07">>))
                     /\ pc = "PRTarget"
            ELSE /\ ~Report[4].passed
                 /\ pr_number = None
                 /\ pc = "Failed"

\* Three entries: the first does not match, the second and the third do and differ in number
C7_Witness ==
    /\ gw.step = "PRDiscovery"
    /\ Len(Items(Answer(1))) = 3
    /\ Matching(Items(Answer(1))) = {2, 3}
    /\ Items(Answer(1))[2].number # Items(Answer(1))[3].number
    /\ Items(Answer(1))[2].title = "chore: RELEASE V1.1.0 notes"
    /\ pr_number = Some(Items(Answer(1))[2].number)

(***************************************************************************)
(* C8.  The list entry that discovery selects as the release pull request  *)
(* has a title containing the keyword, ignoring case, a merged_at that is  *)
(* set, and the base branch as its base; no other entry is ever selected.  *)
(***************************************************************************)
\* The entry the run reports as found
Selected(pr) ==
    /\ ~IsNone(pr.merged_at)
    /\ pr_number = Some(pr.number)
    /\ Printed(Out("pr_found", <<Str(pr.number), pr.title, Prefix(Get(pr.merged_at), 10)>>))

C8_SelectedIsReleasePr ==
    gw.step = "PRDiscovery" =>
        LET items == Items(Answer(1))
        IN  /\ Report[4].passed => \E i \in 1..Len(items) : Selected(items[i])
            /\ \A i \in 1..Len(items) :
                 Selected(items[i]) =>
                     /\ TitleMatches(items[i])
                     /\ ~IsNone(items[i].merged_at)
                     /\ items[i].base.ref = "main"
            /\ \A i \in 1..Len(items) : items[i].base.ref = "main"

\* An unmerged entry with a matching title precedes the selected one
C8_Witness ==
    /\ gw.step = "PRDiscovery"
    /\ Len(Items(Answer(1))) = 2
    /\ TitleMatches(Items(Answer(1))[1])
    /\ IsNone(Items(Answer(1))[1].merged_at)
    /\ Selected(Items(Answer(1))[2])
    /\ Items(Answer(1))[2].number # Items(Answer(1))[1].number

(***************************************************************************)
(* C9.  The squash merge check of pull request N succeeds if and only if   *)
(* the pull request is fetched, it has a merge commit sha, that commit is  *)
(* fetched, the commit has exactly one parent and its message contains     *)
(* "#N".  A one-parent commit with message "Release v1.1.0 (#42)" is       *)
(* valid for pull request 42 and invalid for 43; two parents never are.    *)
(***************************************************************************)
HasBody(r) == Ok(r) /\ ~IsNone(r.body)

ShaOf(r) == Get(r.body).merge_commit_sha

\* The merge commit was fetched: both requests of the check were answered with a body
CommitFetched ==
    /\ HasBody(Answer(1))
    /\ ~IsNone(ShaOf(Answer(1))) /\ Get(ShaOf(Answer(1))) # ""
    /\ Len(calls) = 10
    /\ calls[10].endpoint = "commits/5f2c1e9"
    /\ HasBody(Answer(2))

Commit == Get(Answer(2).body)

References(n) == Contains("#" \o Str(n), Commit.commit.message)

C9_SquashMerge ==
    gw.step = "MergeMethod" =>
        /\ Report[6].passed <=>
             (CommitFetched /\ Len(Commit.parents) = 1 /\ References(Get(pr_number)))
        /\ (CommitFetched /\ Len(Commit.parents) = 2) => ~Report[6].passed
        /\ (CommitFetched /\ Len(Commit.parents) = 1 /\ Commit.commit.message = "Release v1.1.0 (#42)")
             => (Report[6].passed <=> pr_number = Some(42))

\* Pull request 43 with a one-parent commit whose message references #42 only
C9_Witness ==
    /\ gw.step = "MergeMethod"
    /\ CommitFetched
    /\ Len(Commit.parents) = 1
    /\ Commit.commit.message = "Release v1.1.0 (#42)"
    /\ pr_number = Some(43)
    /\ ~Report[6].passed

(***************************************************************************)
(* C10.  As stated: in the squash merge check every unmet condition of the *)
(* merge commit has its own diagnostic: a parent count other than 1 the    *)
(* wrong-parent-count one, a message without "#N" the missing-reference    *)
(* one, also when both are unmet on the same commit.                       *)
(***************************************************************************)
C10_Original ==
    (gw.step = "MergeMethod" /\ CommitFetched) =>
        /\ Len(Commit.parents) # 1 =>
             Printed(Err("wrong_parent_count", <<Str(Len(Commit.parents))>>))
        /\ ~References(Get(pr_number)) =>
             Printed(Err("missing_pr_reference", <<Str(Get(pr_number))>>))

(***************************************************************************)
(* C11.  As stated: whatever the gateway answers, a 200 answer with null   *)
(* or misshapen fields included, no exception leaves the run: nothing is   *)
(* left uncaught, no traceback is printed, and a run that has exited had   *)
(* returned a boolean and printed a verdict for every step it started.     *)
(***************************************************************************)
C11_Original ==
    /\ pc # "Crashed"
    /\ \A i \in 1..Len(out) : out[i].tag # "traceback"
    /\ ~IsNone(exit_code) =>
         /\ ~IsNone(verification_success)
         /\ Len(Verdicts) = Len(Started)

(***************************************************************************)
(* C12.  No retries.                                                       *)
(***************************************************************************)
\* A request that did not bring a 200 answer
FailedCall(c) == c.raised \/ c.status # 200

IsContentCall(c) == Prefix(c.endpoint, 9) = "contents/"

\* C12, as stated: a failed request is the last request of the run, so it is never re-issued and
\* its step issues no further request after it
C12_Original ==
    \A i \in 1..Len(calls) : FailedCall(calls[i]) => i = Len(calls)

\* C12: a failed request is never issued again and its run is failed once the step is over; it
\* is the last request of the run unless it fetched a core file, and after a failed core file
\* request only the remaining core files are requested, each once
C12_NoRetry ==
    \A i \in 1..Len(calls) :
        FailedCall(calls[i]) =>
            /\ \A j \in (i + 1)..Len(calls) : calls[j].endpoint # calls[i].endpoint
            /\ pc = "Failed"
            /\ ~Report[Len(Report)].passed
            /\ ~IsContentCall(calls[i]) => i = Len(calls)
            /\ IsContentCall(calls[i]) =>
                 /\ Report[Len(Report)].name = "Files"
                 /\ \A j \in (i + 1)..Len(calls) : IsContentCall(calls[j])
                 /\ \A j, k \in (i + 1)..Len(calls) :
                        calls[j].endpoint = calls[k].endpoint => j = k

\* The first core file answered 404 and the other three requested after it
C12_Witness ==
    /\ gw.step = "Files"
    /\ Answer(1) = NotFound
    /\ Len(calls) = 6
    /\ FailedCall(calls[3])
    /\ Ok(Answer(2))
    /\ pc = "Failed"

(***************************************************************************)
(* C13.  Configuration errors.                                             *)
(***************************************************************************)
\* The token or the organization is absent or empty
ConfigurationError ==
    \/ environ.GITHUB_RELEASE_TOKEN \in {None, Some("")}
    \/ environ.GITHUB_ORG_HARMONY \in {None, Some("")}

\* C13: with the token or the organization absent or empty the run issues no request and
\* starts no step after the environment check; it fails there, returns False and exits 1
C13_ConfigurationAborts ==
    ConfigurationError =>
        /\ calls = <<>>
        /\ pc \in {"Environment", "Failed"}
        /\ \A i \in 1..Len(Started) : Started[i].args = <<"1/6">>
        /\ Len(Started) <= 1
        /\ pc = "Failed" =>
             /\ Report = <<[name |-> "Environment", passed |-> FALSE]>>
             /\ verification_success = Some(FALSE)
        /\ exit_code \in {None, Some(1)}

\* A run with an empty organization name that has exited
C13_Witness ==
    /\ environ.GITHUB_RELEASE_TOKEN = Some("ghp_release")
    /\ environ.GITHUB_ORG_HARMONY = Some("")
    /\ exit_code = Some(1)
    /\ calls = <<>>
    /\ Printed(Err("env_error", <<"GITHUB_ORG_HARMONY">>))

(***************************************************************************)
(* C14.  The verifier only reads.                                          *)
(***************************************************************************)
\* The gateway operation a request stands for, by its endpoint
Operation(c) ==
    IF Prefix(c.endpoint, 9) = "branches/" THEN "branchExists"
    ELSE IF Prefix(c.endpoint, 9) = "contents/" THEN "getFileContent"
    ELSE IF Prefix(c.endpoint, 6) = "pulls?" THEN "findMergedPullRequests"
    ELSE IF Prefix(c.endpoint, 6) = "pulls/" THEN "getPullRequest"
    ELSE IF Prefix(c.endpoint, 8) = "commits/" THEN "getCommit"
    ELSE "other"

ReadOperations ==
    {"branchExists", "getFileContent", "findMergedPullRequests", "getPullRequest", "getCommit"}

\* C14: every request of a run is a GET on the harmony repository of the configured
\* organization and is one of the five read operations, so no run changes the repository
C14_ReadOnly ==
    \A i \in 1..Len(calls) :
        /\ calls[i].method = "GET"
        /\ Operation(calls[i]) \in ReadOperations
        /\ calls[i].url = "https://api.github.com/repos/" \o Get(environ.GITHUB_ORG_HARMONY)
                            \o "/harmony/" \o calls[i].endpoint

\* A run that used all five operations
C14_Witness ==
    /\ {Operation(calls[i]) : i \in 1..Len(calls)} = ReadOperations
    /\ \A i \in 1..Len(calls) : calls[i].method = "GET"
    /\ ~IsNone(exit_code)

(***************************************************************************)
(* C15.  The merge target step decides on the pull request it fetches      *)
(* itself.                                                                 *)
(***************************************************************************)
\* The base of the pull request as fetched by the step
FetchedBase == Get(Answer(1).body).base.ref

\* C15: the step requests pulls/{number} anew and passes if and only if that request is
\* answered with a pull request whose base is exactly the base branch; the entry discovery
\* selected, listed under base=main, is not consulted.  A different base fails the step with a
\* diagnostic naming the base found and the base expected; a failed fetch with its own.
C15_MergeTarget ==
    gw.step = "PRTarget" =>
        /\ Len(calls) = 8
        /\ calls[8].endpoint = "pulls/" \o Str(Get(pr_number))
        /\ calls[7].endpoint = "pulls?state=closed&base=main&per_page=100"
        /\ Report[5].passed <=> (HasBody(Answer(1)) /\ FetchedBase = base_branch)
        /\ (HasBody(Answer(1)) /\ FetchedBase # base_branch) =>
             /\ Printed(Err("target_error", <<Str(Get(pr_number)), FetchedBase, base_branch>>))
             /\ pc = "Failed"
        /\ ~HasBody(Answer(1)) =>
             /\ Printed(Err("pr_detail_error", <<Str(Get(pr_number))>>))
             /\ \A i \in 1..Len(out) : out[i].tag # "target_error"

\* Pull request 43 was listed under base=main; fetched anew its base is develop
C15_Witness ==
    /\ gw.step = "PRTarget"
    /\ pr_number = Some(43)
    /\ Report[4].passed
    /\ HasBody(Answer(1))
    /\ FetchedBase = "develop"
    /\ Printed(Err("target_error", <<"43", "develop", "main">>))
    /\ ~Report[5].passed

(***************************************************************************)
(* C16.  Requests are issued one after the other in the declared order.    *)
(***************************************************************************)
\* The ten requests of a complete run for pull request n, in the declared order
DeclaredOrder(n) ==
    <<"branches/" \o release_branch, "branches/" \o base_branch>>
    \o FileEndpoints
    \o <<"pulls?state=closed&base=main&per_page=100",
         "pulls/" \o Str(n), "pulls/" \o Str(n), "commits/5f2c1e9">>

\* The number of requests of a run that has passed its first k steps and no more
RequestsThrough(k) == <<0, 2, 6, 7, 8, 10>>[k]

\* C16: at every moment the requests issued are an initial part of the declared order:
\* release branch, base branch, the four files in rule order, the listing, the pull request
\* (target), the pull request and then the commit (merge method); a request of step k + 1 is
\* in the log only when the verdicts of steps 1..k are printed and all pass, and a step that
\* issues requests does so with no failed verdict before it
C16_Sequential ==
    /\ [](LET order == DeclaredOrder(IF IsNone(pr_number) THEN 0 ELSE Get(pr_number))
          IN  /\ Len(calls) <= Len(order)
              /\ \A i \in 1..Len(calls) : calls[i].endpoint = order[i]
              /\ \A k \in 1..5 :
                   Len(calls) > RequestsThrough(k) =>
                       /\ Len(Report) >= k
                       /\ \A j \in 1..k : Report[j].passed
                       /\ Len(pr_number) = (IF k >= 4 THEN 1 ELSE Len(pr_number)))
    /\ [][calls' # calls =>
            /\ ~AnyStepFailed
            /\ Len(Report) = StepIndex(pc) - 1
            /\ Len(calls) = RequestsThrough(StepIndex(pc) - 1)
            /\ Len(Report') = Len(Report) + 1]_vars

\* A complete run: ten requests, pull request 43 fetched twice before its commit
C16_Witness ==
    /\ pc = "Done"
    /\ Len(calls) = 10
    /\ calls[8].endpoint = "pulls/43"
    /\ calls[9].endpoint = "pulls/43"
    /\ calls[10].endpoint = "commits/5f2c1e9"

(***************************************************************************)
(* C17.  A 404 answer and any other failure of a request are handled       *)
(* alike.                                                                  *)
(***************************************************************************)
\* The diagnostics _call_github_api prints for a failed request
GatewayDiagnostics == {"api_not_found", "api_error", "api_exception"}

\* What the step that ran last does when the API answers its requests with as
StepResult(as) ==
    CASE gw.step = "Branches" ->
           _verify_branches(Get(headers), Get(github_org), repo_name, as[1], as[2])
      [] gw.step = "Files" ->
           _verify_core_files(Get(headers), Get(github_org), repo_name, as)
      [] gw.step = "PRDiscovery" ->
           _verify_release_pr(Get(headers), Get(github_org), repo_name, as[1])
      [] gw.step = "PRTarget" ->
           _verify_pr_merge_target(Get(pr_number), Get(headers), Get(github_org), repo_name, as[1])
      [] gw.step = "MergeMethod" ->
           _verify_merge_method(Get(pr_number), Get(headers), Get(github_org), repo_name,
                                as[1], as[2])

\* All of a step's result but the text of the gateway diagnostics: what it returns, the
\* requests it issues in order, and everything else it prints
Outcome(res) ==
    [ret |-> res.ret,
     requests |-> [k \in 1..Len(res.calls) |-> res.calls[k].endpoint],
     prints |-> SelectSeq(res.out, LAMBDA e : e.tag \notin GatewayDiagnostics)]

\* C17: in the step that ran last, replacing the failure that answered one request by any
\* other failure (404, another status, an exception) leaves what the step returns, the
\* requests it issues and all it prints but the gateway diagnostic as they are; the step is
\* the one the run performed, so the verdicts and the result of the run are the same too
C17_SameControlPath ==
    Len(gw.answers) > 0 =>
        \E actual \in {StepResult(gw.answers)} :
            /\ Len(calls) >= Len(actual.calls)
            /\ SubSeq(calls, Len(calls) - Len(actual.calls) + 1, Len(calls)) = actual.calls
            /\ \A i \in 1..Len(gw.answers) :
                 Answer(i) \in FailureResponses =>
                     \A f \in FailureResponses \ {Answer(i)} :
                         \E other \in {StepResult([gw.answers EXCEPT ![i] = f])} :
                             /\ Outcome(other) = Outcome(actual)
                             /\ other.out # actual.out => i <= Len(actual.calls)

\* The release pull request was not found (404); with status 500 instead only the gateway
\* diagnostic differs
C17_Witness ==
    /\ gw.step = "PRTarget"
    /\ Answer(1) = NotFound
    /\ pc = "Failed"
    /\ Printed(Err("api_not_found", <<"pulls/42">>))
    /\ StepResult(<<ServerError>>).out # StepResult(<<NotFound>>).out
    /\ Outcome(StepResult(<<ServerError>>)) = Outcome(StepResult(<<NotFound>>))

(***************************************************************************)
(* C18.  The order of the checks of one file rule.                         *)
(***************************************************************************)
\* Where the loop printed that it started on core_files[i]
VerifyingAt(i) ==
    CHOOSE k \in 1..Len(out) :
        out[k] = Out("verifying", <<core_files[i].name, core_files[i].path, core_files[i].branch>>)

\* What the loop printed on stderr for core_files[i], the gateway diagnostics apart
FileDiagnostics(i) ==
    SelectSeq(SubSeq(out, VerifyingAt(i) + 1,
                     IF i < Len(core_files) THEN VerifyingAt(i + 1) - 1 ELSE Len(out) - 1),
              LAMBDA e : e.stream = "stderr" /\ e.tag \notin GatewayDiagnostics)

\* The diagnostic names the string: in full, or cut after 30 or 50 characters with "..."
Names(diagnostic, s) ==
    \E k \in 1..Len(diagnostic.args) :
        diagnostic.args[k] \in {s, Prefix(s, 30) \o "...", Prefix(s, 50) \o "..."}

\* C18, as stated: a file whose content is available but shorter than min_size fails with the
\* size diagnostic alone, its content not looked at; a file of sufficient size that lacks
\* required strings fails with one diagnostic that names every string it lacks
C18_Original ==
    gw.step = "Files" =>
        \A i \in FileRules :
            Available(Answer(i)) =>
                IF Len(TextOf(Answer(i))) < core_files[i].min_size
                THEN /\ FileDiagnostics(i) =
                          <<Err("file_too_small", <<core_files[i].name, Str(Len(TextOf(Answer(i)))),
                                                    Str(core_files[i].min_size)>>)>>
                     /\ ~RuleAccepted(i)
                ELSE Lacking(i, Answer(i)) # {} =>
                     /\ Len(FileDiagnostics(i)) = 1
                     /\ FileDiagnostics(i)[1].tag \in {"missing_content", "missing_keywords"}
                     /\ Len(FileDiagnostics(i)[1].args) = Cardinality(Lacking(i, Answer(i)))
                     /\ \A k \in Lacking(i, Answer(i)) :
                          Names(FileDiagnostics(i)[1], RequiredStrings(core_files[i])[k])
                     /\ ~RuleAccepted(i)

(***************************************************************************)
(* C19.  Termination.  The script is one thread that runs each statement   *)
(* to its end; with every request answered (requests.get returns or raises *)
(* within its timeout) the next step is always taken.                      *)
(***************************************************************************)
FairSpec == Spec /\ WF_vars(Next)

\* The run is over: it returned True (Done) or False (Failed)
Finished == pc \in {"Done", "Failed"}

\* C19: every run eventually is Done or Failed for good and exits, no step is taken out of
\* Done or Failed, and at no moment more than ten requests have been issued
C19_Termination ==
    /\ <>[]Finished
    /\ <>(~IsNone(exit_code))
    /\ [][Finished => (pc' = pc /\ calls' = calls /\ verification_success' = verification_success)]_vars
    /\ [](Len(calls) <= 10)

\* A run that failed at its tenth request, the fetch of the merge commit
C19_Witness ==
    /\ gw.step = "MergeMethod"
    /\ Ok(Answer(1))
    /\ Answer(2) = ServerError
    /\ Len(calls) = 10
    /\ pc = "Failed"
    /\ exit_code = Some(1)

====
